---- MODULE Spec2Model ----
(***************************************************************************)
(* Comma-delimited chunk aggregator of docs/docs/how_to/functions.ipynb:   *)
(* the generator split_into_list and its async twin asplit_into_list.      *)
(*                                                                         *)
(* A Python str is modelled as a sequence of one-character strings.  A     *)
(* generator is modelled by its position (pc), its local variable buffer   *)
(* and the sequence of values it has yielded so far (emitted).             *)
(***************************************************************************)
EXTENDS Integers, Sequences, FiniteSets, TLC

\* ------------------------------------------------------------------------
\* Bounds of the model
\* ------------------------------------------------------------------------
\* most fragments the upstream source delivers to the single synchronous run
MaxFrags == 3
\* most characters the single synchronous run receives in all
MaxTextLen == 4
\* most fragments delivered in the two-run specifications: to each run of
\* SpecModes, to the two tasks of SpecAsync together
ConcMaxFrags == 2
\* most characters delivered in the two-run specifications: to each run of
\* SpecModes, to the two tasks of SpecAsync together
ConcMaxTextLen == 3

\* number of characters in a sequence of fragments
RECURSIVE TotalLen(_)
TotalLen(frags) ==
    IF frags = <<>> THEN 0 ELSE Len(Head(frags)) + TotalLen(Tail(frags))

\* ------------------------------------------------------------------------
\* Characters and strings
\* ------------------------------------------------------------------------
Comma == ","
Space == " "
\* the characters str.strip() removes (one representative)
Whitespace == {Space}
Chars == {"a", Comma, Space}

\* all strings over alphabet cs of length at most n
StringsUpTo(cs, n) == UNION {[1..k -> cs] : k \in 0..n}

Fragments == StringsUpTo(Chars, MaxTextLen)
ConcFragments == StringsUpTo(Chars, ConcMaxTextLen)

\* exceptions the upstream source may raise when asked for a fragment
Errors == {"ValueError", "TimeoutError"}
NoError == "none"

\* ------------------------------------------------------------------------
\* Python string operations used by the aggregator
\* ------------------------------------------------------------------------
\* ------------------------------------------------------------------------
\* Faulty variants of the definitions below, used to show that the
\* properties depend on the code
\* ------------------------------------------------------------------------
\* buffer.rindex(",") where buffer.index(",") is meant
CommaIndex_Last(s) ==
    CHOOSE i \in 0..(Len(s) - 1) :
        /\ s[i + 1] = ","
        /\ \A j \in (i + 1)..(Len(s) - 1) : s[j + 1] # ","

\* buffer[comma_index + 2 :] where buffer[comma_index + 1 :] is meant
After_SkipOne(s, comma_index) == SubSeq(s, comma_index + 3, Len(s))

\* [buffer[:comma_index]] without .strip()
Item_NoStrip(s) ==
    LET first == CHOOSE i \in 1..Len(s) :
                     s[i] = "," /\ \A j \in 1..(i - 1) : s[j] # ","
    IN  <<SubSeq(s, 1, first - 1)>>

\* a list comprehension that drops an empty item:
\* [x for x in [buffer[:comma_index].strip()] if x]
Item_DropEmpty(s) ==
    LET first == CHOOSE i \in 1..Len(s) :
                     s[i] = "," /\ \A j \in 1..(i - 1) : s[j] # ","
        item == SubSeq(s, 1, first - 1)
        solid == {i \in 1..Len(item) : item[i] # " "}
    IN  IF solid = {} THEN <<>>
        ELSE <<SubSeq(item, CHOOSE i \in solid : \A j \in solid : i <= j,
                            CHOOSE i \in solid : \A j \in solid : i >= j)>>

\* buffer[comma_index:] where buffer[comma_index + 1 :] is meant: the comma
\* stays in the buffer
After_KeepComma(s, comma_index) == SubSeq(s, comma_index + 1, Len(s))

\* "," in buffer
HasComma(s) == \E i \in 1..Len(s) : s[i] = Comma

\* buffer.index(","): 0-based position of the first comma
CommaIndex(s) ==
    CHOOSE i \in 0..(Len(s) - 1) :
        /\ s[i + 1] = Comma
        /\ \A j \in 0..(i - 1) : s[j + 1] # Comma

\* buffer[:comma_index]
Before(s, comma_index) == SubSeq(s, 1, comma_index)

\* buffer[comma_index + 1 :]
After(s, comma_index) == SubSeq(s, comma_index + 2, Len(s))

RECURSIVE LStrip(_)
LStrip(s) ==
    IF s # <<>> /\ Head(s) \in Whitespace THEN LStrip(Tail(s)) ELSE s

RECURSIVE RStrip(_)
RStrip(s) ==
    IF s # <<>> /\ s[Len(s)] \in Whitespace
    THEN RStrip(SubSeq(s, 1, Len(s) - 1))
    ELSE s

\* str.strip()
Strip(s) == LStrip(RStrip(s))

\* the value of the expression  [buffer[:comma_index].strip()]
Item(s) == <<Strip(Before(s, CommaIndex(s)))>>

\* the value of the expression  [buffer.strip()]
LastItem(s) == <<Strip(s)>>

\* ------------------------------------------------------------------------
\* State
\* ------------------------------------------------------------------------
VARIABLES
    pc,        \* pc[r]: position of run r's generator
    buffer,    \* buffer[r]: the local variable buffer of run r
    bound,     \* bound[r]: run r's frame still holds its buffer
    emitted,   \* emitted[r]: the values run r has yielded, in order
    received,  \* received[r]: the fragments run r has got from its source
    raised,    \* raised[r]: the exception that left run r's generator
    srcError,  \* srcError[r]: the exception run r's source raised
    source,    \* source[r]: state of run r's upstream iterator
    running    \* the task the event loop is executing, or "loop"

\* parse_or_fix, one call
VARIABLES
    ppc,       \* position of the call: "idle" when parse_or_fix is not called
    text,      \* the local variable text
    attempt,   \* how many values range(3) has handed to the for loop
    result,    \* what the call returned
    parsed,    \* the texts json.loads was called with, in order
    fixes      \* what each fixing_chain.invoke call returned, in order

gvars == <<pc, buffer, bound, emitted, received, raised, srcError, source,
           running>>

pvars == <<ppc, text, attempt, result, parsed, fixes>>

vars == <<pc, buffer, bound, emitted, received, raised, srcError, source,
          running, ppc, text, attempt, result, parsed, fixes>>

Runs == DOMAIN pc


\* the generator's frame is discarded: its locals, buffer included, are gone
Release(r) ==
    /\ buffer' = [buffer EXCEPT ![r] = <<>>]
    /\ bound' = [bound EXCEPT ![r] = FALSE]

\* ------------------------------------------------------------------------
\* split_into_list: the synchronous generator, one action per step
\* ------------------------------------------------------------------------
\* "if" where "while" is meant: after one item the generator asks for the
\* next fragment
Resume_Once(r) ==
    /\ pc[r] = "yield"
    /\ buffer' = [buffer EXCEPT ![r] = After(@, CommaIndex(@))]
    /\ pc' = [pc EXCEPT ![r] = "for"]
    /\ UNCHANGED <<bound, emitted, received, raised, srcError, source, running>>
    /\ UNCHANGED pvars

\* the last item is yielded only when it is not empty
ForEnd_SkipEmpty(r) ==
    /\ pc[r] = "for"
    /\ source[r] \in {"open", "closed"}
    /\ source' = [source EXCEPT ![r] = IF @ = "open" THEN "exhausted" ELSE @]
    /\ emitted' = [emitted EXCEPT ![r] =
                      IF Strip(buffer[r]) = <<>> THEN @
                      ELSE Append(@, LastItem(buffer[r]))]
    /\ pc' = [pc EXCEPT ![r] = "yield_last"]
    /\ UNCHANGED <<buffer, bound, received, raised, srcError, running>>
    /\ UNCHANGED pvars

\* the rest of the buffer is yielded (try/finally) before the exception
\* of the source leaves the generator
ForRaise_Flush(r, e) ==
    /\ pc[r] = "for"
    /\ source[r] \in {"open", "cancelled"}
    /\ source' = [source EXCEPT ![r] = IF @ = "open" THEN "failed" ELSE @]
    /\ srcError' = [srcError EXCEPT ![r] = e]
    /\ raised' = [raised EXCEPT ![r] = e]
    /\ emitted' = [emitted EXCEPT ![r] = Append(@, LastItem(buffer[r]))]
    /\ pc' = [pc EXCEPT ![r] = "raised"]
    /\ Release(r)
    /\ UNCHANGED <<received, running>>
    /\ UNCHANGED pvars

\* first next(): buffer = ""
Start(r) ==
    /\ pc[r] = "created"
    /\ buffer' = [buffer EXCEPT ![r] = <<>>]
    /\ bound' = [bound EXCEPT ![r] = TRUE]
    /\ pc' = [pc EXCEPT ![r] = "for"]
    /\ UNCHANGED <<emitted, received, raised, srcError, source, running>>
    /\ UNCHANGED pvars

\* for chunk in input: the source hands over chunk;  buffer += chunk
ForChunk(r, chunk) ==
    /\ pc[r] = "for"
    /\ source[r] = "open"
    /\ received' = [received EXCEPT ![r] = Append(@, chunk)]
    /\ buffer' = [buffer EXCEPT ![r] = @ \o chunk]
    /\ pc' = [pc EXCEPT ![r] = "while"]
    /\ UNCHANGED <<bound, emitted, raised, srcError, source, running>>
    /\ UNCHANGED pvars

\* for chunk in input: the source is exhausted (or was closed), the loop
\* ends and the generator goes on to  yield [buffer.strip()]
ForEnd(r) ==
    /\ pc[r] = "for"
    /\ source[r] \in {"open", "closed"}
    /\ source' = [source EXCEPT ![r] = IF @ = "open" THEN "exhausted" ELSE @]
    /\ emitted' = [emitted EXCEPT ![r] = Append(@, LastItem(buffer[r]))]
    /\ pc' = [pc EXCEPT ![r] = "yield_last"]
    /\ UNCHANGED <<buffer, bound, received, raised, srcError, running>>
    /\ UNCHANGED pvars

\* for chunk in input: the source raises e; nothing in the generator
\* catches it, so it leaves the generator
ForRaise(r, e) ==
    /\ pc[r] = "for"
    /\ source[r] \in {"open", "cancelled"}
    /\ source' = [source EXCEPT ![r] = IF @ = "open" THEN "failed" ELSE @]
    /\ srcError' = [srcError EXCEPT ![r] = e]
    /\ raised' = [raised EXCEPT ![r] = e]
    /\ pc' = [pc EXCEPT ![r] = "raised"]
    /\ Release(r)
    /\ UNCHANGED <<emitted, received, running>>
    /\ UNCHANGED pvars

\* while "," in buffer: true;  comma_index = buffer.index(",");
\* yield [buffer[:comma_index].strip()]
WhileComma(r) ==
    /\ pc[r] = "while"
    /\ HasComma(buffer[r])
    /\ emitted' = [emitted EXCEPT ![r] = Append(@, Item(buffer[r]))]
    /\ pc' = [pc EXCEPT ![r] = "yield"]
    /\ UNCHANGED <<buffer, bound, received, raised, srcError, source, running>>
    /\ UNCHANGED pvars

\* while "," in buffer: false; back to the for statement
WhileExit(r) ==
    /\ pc[r] = "while"
    /\ ~HasComma(buffer[r])
    /\ pc' = [pc EXCEPT ![r] = "for"]
    /\ UNCHANGED <<buffer, bound, emitted, received, raised, srcError, source,
                   running>>
    /\ UNCHANGED pvars

\* next() on the generator suspended in the loop:
\* buffer = buffer[comma_index + 1 :], then the while test again
Resume(r) ==
    /\ pc[r] = "yield"
    /\ buffer' = [buffer EXCEPT ![r] = After(@, CommaIndex(@))]
    /\ pc' = [pc EXCEPT ![r] = "while"]
    /\ UNCHANGED <<bound, emitted, received, raised, srcError, source, running>>
    /\ UNCHANGED pvars

\* next() on the generator suspended at its last yield: the body ends
Finish(r) ==
    /\ pc[r] = "yield_last"
    /\ pc' = [pc EXCEPT ![r] = "returned"]
    /\ Release(r)
    /\ UNCHANGED <<emitted, received, raised, srcError, source, running>>
    /\ UNCHANGED pvars

\* split_into_list as a function of the whole fragment sequence:
\* list(split_into_list(iter(frags)))
RECURSIVE Drain(_, _)
Drain(buf, out) ==
    IF HasComma(buf)
    THEN Drain(After(buf, CommaIndex(buf)), Append(out, Item(buf)))
    ELSE <<out, buf>>

RECURSIVE Feed(_, _, _)
Feed(frags, buf, out) ==
    IF frags = <<>>
    THEN Append(out, LastItem(buf))
    ELSE LET d == Drain(buf \o Head(frags), out)
         IN  Feed(Tail(frags), d[2], d[1])

split_into_list(frags) == Feed(frags, <<>>, <<>>)

\* ------------------------------------------------------------------------
\* One synchronous run
\* ------------------------------------------------------------------------
\* parse_or_fix has not been called
NoResult == [type |-> "none", repr |-> ""]

ParseIdle ==
    /\ ppc = "idle"
    /\ text = ""
    /\ attempt = 0
    /\ result = NoResult
    /\ parsed = <<>>
    /\ fixes = <<>>

InitRuns(rs) ==
    /\ pc = [r \in rs |-> "created"]
    /\ buffer = [r \in rs |-> <<>>]
    /\ bound = [r \in rs |-> FALSE]
    /\ emitted = [r \in rs |-> <<>>]
    /\ received = [r \in rs |-> <<>>]
    /\ raised = [r \in rs |-> NoError]
    /\ srcError = [r \in rs |-> NoError]
    /\ source = [r \in rs |-> "open"]

Init ==
    /\ InitRuns({"sync"})
    /\ running = "sync"
    /\ ParseIdle

Next ==
    \/ Start("sync")
    \/ /\ pc["sync"] = "for"
       /\ Len(received["sync"]) < MaxFrags
       /\ \E chunk \in Fragments :
              /\ Len(chunk) <= MaxTextLen - TotalLen(received["sync"])
              /\ ForChunk("sync", chunk)
    \/ source["sync"] = "open" /\ ForEnd("sync")
    \/ \E e \in Errors : source["sync"] = "open" /\ ForRaise("sync", e)
    \/ WhileComma("sync")
    \/ WhileExit("sync")
    \/ Resume("sync")
    \/ Finish("sync")

Spec == Init /\ [][Next]_vars

\* ------------------------------------------------------------------------
\* Vocabulary of the properties
\* ------------------------------------------------------------------------
RECURSIVE Concat(_)
Concat(frags) ==
    IF frags = <<>> THEN <<>> ELSE Head(frags) \o Concat(Tail(frags))

\* the whole text run r has received so far
Text(r) == Concat(received[r])

CountCommas(s) == Cardinality({i \in 1..Len(s) : s[i] = Comma})

\* position of the k-th comma of s; 0 for k = 0, Len(s) + 1 past the last
NthComma(s, k) ==
    IF k = 0 THEN 0
    ELSE IF k > CountCommas(s) THEN Len(s) + 1
    ELSE CHOOSE i \in 1..Len(s) :
             /\ s[i] = Comma
             /\ Cardinality({j \in 1..i : s[j] = Comma}) = k

\* the pieces of s between consecutive commas, as s.split(",") gives them
SplitOnComma(s) ==
    [k \in 1..(CountCommas(s) + 1) |->
        SubSeq(s, NthComma(s, k - 1) + 1, NthComma(s, k) - 1)]

\* s without its leading and trailing whitespace
Trimmed(s) ==
    LET solid == {i \in 1..Len(s) : s[i] \notin Whitespace}
    IN  IF solid = {} THEN <<>>
        ELSE SubSeq(s, CHOOSE i \in solid : \A j \in solid : i <= j,
                       CHOOSE i \in solid : \A j \in solid : i >= j)

TrimmedPieces(s) ==
    LET pieces == SplitOnComma(s)
    IN  [k \in 1..Len(pieces) |-> Trimmed(pieces[k])]

\* the strings inside a sequence of single-element lists
Items(em) == [i \in 1..Len(em) |-> em[i][1]]

Front(s) == SubSeq(s, 1, Len(s) - 1)

IsPrefix(s, t) == Len(s) <= Len(t) /\ s = SubSeq(t, 1, Len(s))

\* the run has made its final yield
Flushed(r) == pc[r] \in {"yield_last", "returned"}

\* ------------------------------------------------------------------------
\* C1
\* ------------------------------------------------------------------------
\* C1: when a run has consumed all its fragments, the values it emitted are
\* exactly one single-element list per piece of the concatenated input split
\* on commas, in order, each piece trimmed; k commas give k + 1 emissions and
\* empty pieces are emitted as the empty string.
C1_SplitOnComma ==
    \A r \in Runs :
        Flushed(r) =>
            /\ Len(emitted[r]) = CountCommas(Text(r)) + 1
            /\ \A i \in 1..Len(emitted[r]) : Len(emitted[r][i]) = 1
            /\ Items(emitted[r]) = TrimmedPieces(Text(r))

C1_Witness ==
    \E r \in Runs :
        /\ pc[r] = "returned"
        /\ Len(received[r]) >= 2
        /\ CountCommas(Text(r)) >= 2
        /\ \E k \in 1..Len(emitted[r]) : emitted[r][k] = << <<>> >>
        /\ \E k \in 1..Len(emitted[r]) :
               /\ emitted[r][k] # << <<>> >>
               /\ SplitOnComma(Text(r))[k] # emitted[r][k][1]

\* ------------------------------------------------------------------------
\* C2
\* ------------------------------------------------------------------------
\* most fragments of the other fragmentations a run is compared with
RefragMax == 2

\* every way to cut the text s into exactly k fragments, empty ones included
RECURSIVE Cuts(_, _)
Cuts(s, k) ==
    IF k = 0 THEN (IF s = <<>> THEN {<<>>} ELSE {})
    ELSE UNION {{<<SubSeq(s, 1, i)>> \o g :
                    g \in Cuts(SubSeq(s, i + 1, Len(s)), k - 1)} :
                i \in 0..Len(s)}

Refragmentations(s) == UNION {Cuts(s, k) : k \in 0..RefragMax}

\* C2: fragment-boundary independence: whatever fragment sequence a run was
\* fed, every other fragment sequence with the same concatenation (empty
\* fragments, several commas in one fragment, items cut in the middle) makes
\* the aggregator emit the identical sequence of items.
C2_BoundaryIndependent ==
    \A r \in Runs :
        Flushed(r) =>
            \A g \in Refragmentations(Text(r)) :
                split_into_list(g) = emitted[r]

C2_Witness ==
    \E r \in Runs :
        /\ pc[r] = "returned"
        /\ Len(received[r]) = 3
        /\ CountCommas(Text(r)) >= 2
        /\ \E i \in 1..3 : received[r][i] = <<>>
        /\ \E i \in 1..3 : CountCommas(received[r][i]) = 2
        /\ \E g \in Refragmentations(Text(r)) :
               /\ g # received[r]
               /\ Len(g) = 2
               /\ g[1] # <<>> /\ g[1][Len(g[1])] = "a"
               /\ g[2] # <<>> /\ g[2][1] = "a"

\* ------------------------------------------------------------------------
\* C3
\* ------------------------------------------------------------------------
\* ", ".join(items)
RECURSIVE Join(_)
Join(items) ==
    IF items = <<>> THEN <<>>
    ELSE IF Len(items) = 1 THEN items[1]
    ELSE items[1] \o <<Comma, Space>> \o Join(Tail(items))

\* position i of s lies in a run of whitespace that touches a comma or an
\* end of s
NextToComma(s, i) ==
    /\ s[i] \in Whitespace
    /\ \/ \E lo \in 1..i :
              /\ \A k \in lo..i : s[k] \in Whitespace
              /\ (lo = 1 \/ s[lo - 1] = Comma)
       \/ \E hi \in i..Len(s) :
              /\ \A k \in i..hi : s[k] \in Whitespace
              /\ (hi = Len(s) \/ s[hi + 1] = Comma)

\* s without the whitespace next to its commas and at its ends
RECURSIVE SqueezeFrom(_, _)
SqueezeFrom(s, i) ==
    IF i > Len(s) THEN <<>>
    ELSE (IF NextToComma(s, i) THEN <<>> ELSE <<s[i]>>) \o SqueezeFrom(s, i + 1)

Squeeze(s) == SqueezeFrom(s, 1)

\* C3 as stated: re-joining all emitted items with ", " and trimming
\* reproduces the trimmed concatenation of all input fragments.
C3_RoundTrip_AsStated ==
    \A r \in Runs :
        Flushed(r) => Trimmed(Join(Items(emitted[r]))) = Trimmed(Text(r))

\* C3 (amended): re-joining all emitted items with ", " reproduces the input
\* text up to the whitespace next to a comma or at the ends of the text: with
\* those whitespace runs deleted from both, the two texts are equal, so no
\* other character is dropped, duplicated or moved over the whole run.
C3_RoundTripUpToWhitespace ==
    \A r \in Runs :
        Flushed(r) =>
            Squeeze(Join(Items(emitted[r]))) = Squeeze(Text(r))

C3_Witness ==
    \E r \in Runs :
        /\ pc[r] = "returned"
        /\ CountCommas(Text(r)) >= 1
        /\ Trimmed(Join(Items(emitted[r]))) # Trimmed(Text(r))
        /\ \E i \in 2..(Len(Text(r)) - 1) :
               /\ Text(r)[i] = Space
               /\ Text(r)[i - 1] = "a"
               /\ Text(r)[i + 1] = "a"

\* ------------------------------------------------------------------------
\* C4
\* ------------------------------------------------------------------------
\* the items a run yielded inside its loop (all but the final one)
EmittedInLoop(r) == IF Flushed(r) THEN Front(emitted[r]) ELSE emitted[r]

\* C4: eager, complete draining: whenever the aggregator asks for a fragment,
\* and at the final flush, its buffer holds no comma and every
\* comma-terminated segment of the input received so far has been emitted,
\* in left-to-right order; the buffer is the text after the last comma.
C4_EagerDrain ==
    \A r \in Runs :
        pc[r] \in {"for", "yield_last"} =>
            /\ ~HasComma(buffer[r])
            /\ Items(EmittedInLoop(r)) = Front(TrimmedPieces(Text(r)))
            /\ buffer[r] = SplitOnComma(Text(r))[CountCommas(Text(r)) + 1]

C4_Witness ==
    \E r \in Runs :
        /\ pc[r] = "for"
        /\ Len(received[r]) = 2
        /\ CountCommas(received[r][2]) = 2
        /\ received[r][1] = <<"a">>
        /\ emitted[r] = << <<<<"a">>>>, <<<<>>>> >>

\* ------------------------------------------------------------------------
\* C5
\* ------------------------------------------------------------------------
\* C5: final flush: the step in which the input turns out exhausted emits
\* exactly one more item, the trimmed buffer, also when the buffer is empty
\* or no fragment ever came, and nothing is emitted after it; an input
\* without a comma gives no item before exhaustion and exactly one item, the
\* trimmed whole text, at exhaustion.
C5_FinalFlush ==
    /\ [][\A r \in Runs :
             (source[r] = "open" /\ source'[r] = "exhausted") =>
                 emitted'[r] = Append(emitted[r], <<Trimmed(buffer[r])>>)]_vars
    /\ [][\A r \in Runs :
             source[r] = "exhausted" => emitted'[r] = emitted[r]]_vars
    /\ [](\A r \in Runs :
             ~HasComma(Text(r)) =>
                 emitted[r] = IF source[r] = "exhausted"
                              THEN << <<Trimmed(Text(r))>> >>
                              ELSE <<>>)

C5_Witness ==
    \E r \in Runs :
        /\ pc[r] = "returned"
        /\ source[r] = "exhausted"
        /\ received[r] = <<>>
        /\ emitted[r] = << <<<<>>>> >>

\* ------------------------------------------------------------------------
\* C6
\* ------------------------------------------------------------------------
\* C6: when the source fails on the request for the n-th fragment, the
\* exception that leaves the aggregator is the exception of the source, no
\* final flush and no other item follows, and the items emitted are exactly
\* those a successful run on the first n-1 fragments emits before it asks
\* for the n-th (all but its final flush).
C6_SourceFailure ==
    \A r \in Runs :
        source[r] = "failed" =>
            /\ pc[r] = "raised"
            /\ raised[r] = srcError[r]
            /\ raised[r] \in Errors
            /\ emitted[r] = Front(split_into_list(received[r]))

C6_Witness ==
    \E r \in Runs :
        /\ pc[r] = "raised"
        /\ raised[r] = "TimeoutError"
        /\ Len(received[r]) = 2
        /\ Len(emitted[r]) = 2
        /\ SplitOnComma(Text(r))[3] = <<"a">>

\* ------------------------------------------------------------------------
\* asplit_into_list: the asynchronous generator, one action per step.
\* Its task runs on a single-threaded event loop: a step of the task needs
\* running = r.  While the generator is suspended at a yield (or not yet
\* started, or finished) the task is in the code of its consumer.
\* ------------------------------------------------------------------------
Terminal == {"returned", "raised"}
AtConsumer == {"created", "yield", "yield_last"} \cup Terminal

\* buffer[r] += chunk turned into an append to a buffer all runs share
AForChunk_SharedBuffer(r, chunk) ==
    /\ pc[r] = "async_for"
    /\ running = r
    /\ source[r] = "open"
    /\ received' = [received EXCEPT ![r] = Append(@, chunk)]
    /\ buffer' = [q \in Runs |-> IF bound[q] THEN buffer[q] \o chunk
                                 ELSE buffer[q]]
    /\ pc' = [pc EXCEPT ![r] = "while"]
    /\ UNCHANGED <<bound, emitted, raised, srcError, source, running>>
    /\ UNCHANGED pvars

\* the async version without its final  yield [buffer.strip()]
AForEnd_NoFlush(r) ==
    /\ pc[r] = "async_for"
    /\ running = r
    /\ source[r] \in {"open", "closed"}
    /\ source' = [source EXCEPT ![r] = IF @ = "open" THEN "exhausted" ELSE @]
    /\ pc' = [pc EXCEPT ![r] = "yield_last"]
    /\ UNCHANGED <<buffer, bound, emitted, received, raised, srcError, running>>
    /\ UNCHANGED pvars

\* the rest of the buffer is yielded before the exception leaves
AForRaise_Flush(r, e) ==
    /\ pc[r] = "async_for"
    /\ running = r
    /\ source[r] \in {"open", "cancelled"}
    /\ source' = [source EXCEPT ![r] = IF @ = "open" THEN "failed" ELSE @]
    /\ srcError' = [srcError EXCEPT ![r] = e]
    /\ raised' = [raised EXCEPT ![r] = e]
    /\ emitted' = [emitted EXCEPT ![r] = Append(@, LastItem(buffer[r]))]
    /\ pc' = [pc EXCEPT ![r] = "raised"]
    /\ Release(r)
    /\ UNCHANGED <<received, running>>
    /\ UNCHANGED pvars

\* an  await asyncio.sleep(0)  after the while loop
AWhileExit_Sleep(r) ==
    /\ pc[r] = "while"
    /\ running = r
    /\ ~HasComma(buffer[r])
    /\ pc' = [pc EXCEPT ![r] = "async_for"]
    /\ running' = "loop"
    /\ UNCHANGED <<buffer, bound, emitted, received, raised, srcError, source>>
    /\ UNCHANGED pvars

\* first __anext__(): buffer = ""
AStart(r) ==
    /\ pc[r] = "created"
    /\ running = r
    /\ buffer' = [buffer EXCEPT ![r] = <<>>]
    /\ bound' = [bound EXCEPT ![r] = TRUE]
    /\ pc' = [pc EXCEPT ![r] = "async_for"]
    /\ UNCHANGED <<emitted, received, raised, srcError, source, running>>
    /\ UNCHANGED pvars

\* async for chunk in input: the fragment is not there yet, the task is
\* suspended and the event loop takes over
AAwait(r) ==
    /\ pc[r] = "async_for"
    /\ running = r
    /\ running' = "loop"
    /\ UNCHANGED <<pc, buffer, bound, emitted, received, raised, srcError,
                   source>>
    /\ UNCHANGED pvars

\* async for chunk in input: the source hands over chunk;  buffer += chunk
AForChunk(r, chunk) ==
    /\ pc[r] = "async_for"
    /\ running = r
    /\ source[r] = "open"
    /\ received' = [received EXCEPT ![r] = Append(@, chunk)]
    /\ buffer' = [buffer EXCEPT ![r] = @ \o chunk]
    /\ pc' = [pc EXCEPT ![r] = "while"]
    /\ UNCHANGED <<bound, emitted, raised, srcError, source, running>>
    /\ UNCHANGED pvars

\* async for chunk in input: StopAsyncIteration (the source is exhausted or
\* was closed); the loop ends and the generator goes on to
\* yield [buffer.strip()]
AForEnd(r) ==
    /\ pc[r] = "async_for"
    /\ running = r
    /\ source[r] \in {"open", "closed"}
    /\ source' = [source EXCEPT ![r] = IF @ = "open" THEN "exhausted" ELSE @]
    /\ emitted' = [emitted EXCEPT ![r] = Append(@, LastItem(buffer[r]))]
    /\ pc' = [pc EXCEPT ![r] = "yield_last"]
    /\ UNCHANGED <<buffer, bound, received, raised, srcError, running>>
    /\ UNCHANGED pvars

\* async for chunk in input: the retrieval raises e (an error of the source,
\* or CancelledError); nothing catches it, so it leaves the generator
AForRaise(r, e) ==
    /\ pc[r] = "async_for"
    /\ running = r
    /\ source[r] \in {"open", "cancelled"}
    /\ source' = [source EXCEPT ![r] = IF @ = "open" THEN "failed" ELSE @]
    /\ srcError' = [srcError EXCEPT ![r] = e]
    /\ raised' = [raised EXCEPT ![r] = e]
    /\ pc' = [pc EXCEPT ![r] = "raised"]
    /\ Release(r)
    /\ UNCHANGED <<emitted, received, running>>
    /\ UNCHANGED pvars

\* while "," in buffer: true;  comma_index = buffer.index(",");
\* yield [buffer[:comma_index].strip()]: the item goes to the consumer
AWhileComma(r) ==
    /\ pc[r] = "while"
    /\ running = r
    /\ HasComma(buffer[r])
    /\ emitted' = [emitted EXCEPT ![r] = Append(@, Item(buffer[r]))]
    /\ pc' = [pc EXCEPT ![r] = "yield"]
    /\ UNCHANGED <<buffer, bound, received, raised, srcError, source, running>>
    /\ UNCHANGED pvars

\* while "," in buffer: false; back to the async for statement
AWhileExit(r) ==
    /\ pc[r] = "while"
    /\ running = r
    /\ ~HasComma(buffer[r])
    /\ pc' = [pc EXCEPT ![r] = "async_for"]
    /\ UNCHANGED <<buffer, bound, emitted, received, raised, srcError, source,
                   running>>
    /\ UNCHANGED pvars

\* __anext__() on the generator suspended in the loop:
\* buffer = buffer[comma_index + 1 :], then the while test again
AResume(r) ==
    /\ pc[r] = "yield"
    /\ running = r
    /\ buffer' = [buffer EXCEPT ![r] = After(@, CommaIndex(@))]
    /\ pc' = [pc EXCEPT ![r] = "while"]
    /\ UNCHANGED <<bound, emitted, received, raised, srcError, source, running>>
    /\ UNCHANGED pvars

\* __anext__() on the generator suspended at its last yield: the body ends
AFinish(r) ==
    /\ pc[r] = "yield_last"
    /\ running = r
    /\ pc' = [pc EXCEPT ![r] = "returned"]
    /\ Release(r)
    /\ UNCHANGED <<emitted, received, raised, srcError, source, running>>
    /\ UNCHANGED pvars

\* the consumer of the items ( async for chunk in list_chain.astream(...) )
\* awaits something of its own, or its task ends: the event loop takes over
ConsumerAwait(r) ==
    /\ pc[r] \in AtConsumer
    /\ running = r
    /\ running' = "loop"
    /\ UNCHANGED <<pc, buffer, bound, emitted, received, raised, srcError,
                   source>>
    /\ UNCHANGED pvars

\* the event loop resumes a task that has not ended
Dispatch(r) ==
    /\ running = "loop"
    /\ pc[r] \notin Terminal
    /\ running' = r
    /\ UNCHANGED <<pc, buffer, bound, emitted, received, raised, srcError,
                   source>>
    /\ UNCHANGED pvars

\* the upstream async generator is closed (aclose()) while the aggregator is
\* not inside a retrieval: its next __anext__() raises StopAsyncIteration
SourceClose(r) ==
    /\ source[r] = "open"
    /\ pc[r] \in {"created", "yield"}
    /\ source' = [source EXCEPT ![r] = "closed"]
    /\ UNCHANGED <<pc, buffer, bound, emitted, received, raised, srcError,
                   running>>
    /\ UNCHANGED pvars

\* the upstream is cancelled while the aggregator is suspended: the
\* retrieval raises CancelledError
SourceCancel(r) ==
    /\ source[r] = "open"
    /\ \/ pc[r] \in {"created", "yield"}
       \/ pc[r] = "async_for" /\ running # r
    /\ source' = [source EXCEPT ![r] = "cancelled"]
    /\ UNCHANGED <<pc, buffer, bound, emitted, received, raised, srcError,
                   running>>
    /\ UNCHANGED pvars

\* asplit_into_list as a function of the whole fragment sequence:
\* [item async for item in asplit_into_list(frags)]
RECURSIVE ADrain(_, _)
ADrain(buf, out) ==
    IF HasComma(buf)
    THEN ADrain(After(buf, CommaIndex(buf)), Append(out, Item(buf)))
    ELSE <<out, buf>>

RECURSIVE AFeed(_, _, _)
AFeed(frags, buf, out) ==
    IF frags = <<>>
    THEN Append(out, LastItem(buf))
    ELSE LET d == ADrain(buf \o Head(frags), out)
         IN  AFeed(Tail(frags), d[2], d[1])

asplit_into_list(frags) == AFeed(frags, <<>>, <<>>)

\* ------------------------------------------------------------------------
\* A synchronous and an asynchronous run over the same input sequence
\* ------------------------------------------------------------------------
\* the source may hand chunk to run r: the runs read the same sequence
ChunkAgrees(r, chunk) ==
    \A o \in Runs \ {r} :
        /\ Len(received[o]) > Len(received[r]) =>
               chunk = received[o][Len(received[r]) + 1]
        /\ source[o] = "exhausted" => Len(received[r]) < Len(received[o])

\* the source may tell run r that the sequence has ended
EndAgrees(r) ==
    \A o \in Runs \ {r} : Len(received[o]) <= Len(received[r])

InitModes ==
    /\ InitRuns({"sync", "async"})
    /\ running = "loop"
    /\ ParseIdle

NextModes ==
    \/ Start("sync")
    \/ /\ pc["sync"] = "for"
       /\ Len(received["sync"]) < ConcMaxFrags
       /\ \E chunk \in ConcFragments :
              /\ Len(chunk) <= ConcMaxTextLen - TotalLen(received["sync"])
              /\ ChunkAgrees("sync", chunk)
              /\ ForChunk("sync", chunk)
    \/ EndAgrees("sync") /\ ForEnd("sync")
    \/ WhileComma("sync")
    \/ WhileExit("sync")
    \/ Resume("sync")
    \/ Finish("sync")
    \/ AStart("async")
    \/ AAwait("async")
    \/ /\ pc["async"] = "async_for"
       /\ running = "async"
       /\ Len(received["async"]) < ConcMaxFrags
       /\ \E chunk \in ConcFragments :
              /\ Len(chunk) <= ConcMaxTextLen - TotalLen(received["async"])
              /\ ChunkAgrees("async", chunk)
              /\ AForChunk("async", chunk)
    \/ EndAgrees("async") /\ AForEnd("async")
    \/ AWhileComma("async")
    \/ AWhileExit("async")
    \/ AResume("async")
    \/ AFinish("async")
    \/ ConsumerAwait("async")
    \/ Dispatch("async")

SpecModes == InitModes /\ [][NextModes]_vars

\* ------------------------------------------------------------------------
\* Two asynchronous runs on one event loop, each with its own source
\* ------------------------------------------------------------------------
Tasks == {"a1", "a2"}

InitAsync ==
    /\ InitRuns(Tasks)
    /\ running = "loop"
    /\ ParseIdle

NextAsync ==
    \E r \in Tasks :
        \/ AStart(r)
        \/ AAwait(r)
        \/ /\ pc[r] = "async_for"
           /\ running = r
           /\ Len(received["a1"]) + Len(received["a2"]) < ConcMaxFrags
           /\ \E chunk \in ConcFragments :
                  /\ Len(chunk) <= ConcMaxTextLen - TotalLen(received["a1"])
                                     - TotalLen(received["a2"])
                  /\ AForChunk(r, chunk)
        \/ AForEnd(r)
        \/ source[r] = "cancelled" /\ AForRaise(r, "CancelledError")
        \/ AWhileComma(r)
        \/ AWhileExit(r)
        \/ AResume(r)
        \/ AFinish(r)
        \/ ConsumerAwait(r)
        \/ Dispatch(r)
        \/ SourceClose(r)
        \/ SourceCancel(r)

SpecAsync == InitAsync /\ [][NextAsync]_vars

\* ------------------------------------------------------------------------
\* C7
\* ------------------------------------------------------------------------
\* C7: mode equivalence: fed the same fragment sequence, asplit_into_list
\* emits the same single-element lists as split_into_list, whatever the
\* event loop does: at any moment one run's emissions are a prefix of the
\* other's, with the same fragments consumed both hold the same buffer and
\* have emitted the same items, and once both have finished their emissions
\* are equal.
C7_ModeEquivalence ==
    LET s == emitted["sync"]
        a == emitted["async"]
    IN  /\ IsPrefix(s, a) \/ IsPrefix(a, s)
        /\ (pc["sync"] = "for" /\ pc["async"] = "async_for"
                /\ Len(received["sync"]) = Len(received["async"])) =>
               (s = a /\ buffer["sync"] = buffer["async"])
        /\ (Flushed("sync") /\ Flushed("async")) => s = a

C7_Witness ==
    /\ pc["sync"] = "returned"
    /\ pc["async"] = "returned"
    /\ received["async"] = << <<Space, "a">>, <<Comma>> >>
    /\ emitted["async"] = << <<<<"a">>>>, <<<<>>>> >>

\* ------------------------------------------------------------------------
\* C8
\* ------------------------------------------------------------------------
\* C8 as stated: once the upstream of a run has been closed or cancelled
\* after a fragment was delivered, the run emits nothing further.
C8_AsStated ==
    [][\A r \in Runs :
          (received[r] # <<>> /\ source[r] \in {"closed", "cancelled"}) =>
              emitted'[r] = emitted[r]]_vars

\* C8 (amended): a closed or cancelled upstream is noticed at the next
\* request for a fragment; items for the comma-terminated segments already
\* in the buffer are still emitted before it.  On a cancelled upstream the
\* request raises CancelledError, which leaves the aggregator: no final item
\* and nothing else is emitted afterwards, and the buffer is released.  On a
\* closed upstream the request reports the end of the input, and the
\* aggregator emits the trimmed residual buffer as its final item, as on
\* normal exhaustion; the buffer is released when the run has finished.
C8_CloseOrCancel ==
    /\ [][\A r \in Runs :
             (source[r] = "cancelled" /\ pc[r] = "async_for"
                  /\ pc'[r] # pc[r]) =>
                 /\ pc'[r] = "raised"
                 /\ raised'[r] = "CancelledError"
                 /\ emitted'[r] = emitted[r]
                 /\ ~bound'[r]]_vars
    /\ [][\A r \in Runs :
             pc[r] = "raised" => (pc'[r] = "raised" /\ emitted'[r] = emitted[r])]_vars
    /\ [][\A r \in Runs :
             (source[r] = "closed" /\ pc[r] = "async_for"
                  /\ pc'[r] # pc[r]) =>
                 /\ pc'[r] = "yield_last"
                 /\ emitted'[r] = Append(emitted[r], <<Trimmed(buffer[r])>>)]_vars
    /\ [][\A r \in Runs :
             (source[r] \in {"closed", "cancelled"} /\ pc[r] # "async_for") =>
                 IsPrefix(emitted'[r], Front(asplit_into_list(received[r])))
                    \/ emitted'[r] = emitted[r]]_vars
    /\ [](\A r \in Runs : pc[r] \in Terminal => ~bound[r])

C8_Witness ==
    /\ source["a1"] = "closed"
    /\ pc["a1"] = "returned"
    /\ received["a1"] = << <<Comma, "a">> >>
    /\ emitted["a1"] = << <<<<>>>>, <<<<"a">>>> >>
    /\ source["a2"] = "cancelled"
    /\ pc["a2"] = "raised"
    /\ received["a2"] = << <<"a">> >>
    /\ emitted["a2"] = <<>>
    /\ ~bound["a1"] /\ ~bound["a2"]

\* ------------------------------------------------------------------------
\* C9
\* ------------------------------------------------------------------------
\* C9: run isolation: however two runs are interleaved at their suspension
\* points, each emits exactly what it emits alone on its own fragments: its
\* emissions are always a prefix of, and once it has flushed equal to, the
\* result of the aggregator on the fragments it received, and its buffer is
\* the unemitted rest of its own input only.
C9_RunIsolation ==
    \A r \in Runs :
        /\ IsPrefix(emitted[r], asplit_into_list(received[r]))
        /\ Flushed(r) => emitted[r] = asplit_into_list(received[r])
        /\ pc[r] \in {"async_for", "yield_last"} =>
               buffer[r] = SplitOnComma(Text(r))[CountCommas(Text(r)) + 1]
        /\ pc[r] = "created" => (~bound[r] /\ emitted[r] = <<>>)

C9_Witness ==
    /\ pc["a1"] = "yield"
    /\ pc["a2"] = "yield"
    /\ received["a1"] = << <<"a", Comma>> >>
    /\ received["a2"] = << <<Comma>> >>
    /\ emitted["a1"] # emitted["a2"]
    /\ running = "loop"

\* ------------------------------------------------------------------------
\* C10
\* ------------------------------------------------------------------------
\* the code of the aggregator of run r is executing
HoldsControl(r) == running = r /\ pc[r] \in {"async_for", "while"}

\* C10 as stated: the aggregator gives up control only at a fragment
\* retrieval, never while the buffer is being drained.
C10_AsStated ==
    [][\A r \in Runs :
          (HoldsControl(r) /\ ~HoldsControl(r)') => pc[r] = "async_for"]_vars

\* C10 (amended): the aggregator gives up control only at a fragment
\* retrieval, the one place where the event loop takes over from it, and at
\* each emission, where the yield hands the item and control to its
\* consumer; emissions happen while the buffer is being drained, between
\* appending a fragment and requesting the next.  Nowhere else is control
\* handed back.
C10_SuspensionPoints ==
    [][\A r \in Runs :
          (HoldsControl(r) /\ ~HoldsControl(r)') =>
              \/ pc[r] = "async_for"
              \/ /\ pc[r] = "while"
                 /\ pc'[r] = "yield"
                 /\ emitted'[r] = Append(emitted[r], Item(buffer[r]))
                 /\ running' = r]_vars

C10_Witness ==
    \E r \in Runs :
        /\ pc[r] = "yield"
        /\ CountCommas(buffer[r]) = 2
        /\ running \in Runs \ {r}

\* ------------------------------------------------------------------------
\* C11
\* ------------------------------------------------------------------------
\* list_chain.invoke / ainvoke: the chain drains the generator and adds up
\* the chunks it yielded:  final = chunk  for the first one,
\* final = final + chunk  for each later one
RECURSIVE Collect(_)
Collect(em) ==
    IF em = <<>> THEN <<>>
    ELSE IF Len(em) = 1 THEN em[1]
    ELSE Collect(SubSeq(em, 1, Len(em) - 1)) \o em[Len(em)]

\* C11: a caller that drains the aggregator fully (invoke, ainvoke) gets one
\* list holding all emitted items: as many elements as there were emissions,
\* the i-th element being the item of the i-th emitted list, none lost,
\* duplicated or reordered.
C11_InvokeCollects ==
    \A r \in Runs :
        pc[r] = "returned" =>
            LET final == Collect(emitted[r])
            IN  /\ Len(final) = Len(emitted[r])
                /\ \A i \in 1..Len(final) : <<final[i]>> = emitted[r][i]

C11_Witness ==
    /\ pc["sync"] = "returned"
    /\ pc["async"] = "returned"
    /\ Len(received["sync"]) = 2
    /\ Collect(emitted["sync"]) = << <<>>, <<"a">>, <<>> >>
    /\ Collect(emitted["async"]) = << <<>>, <<"a">>, <<>> >>

\* ------------------------------------------------------------------------
\* C12
\* ------------------------------------------------------------------------
\* the source answers the request of the synchronous run
ModesSyncFetch ==
    \/ /\ pc["sync"] = "for"
       /\ Len(received["sync"]) < ConcMaxFrags
       /\ \E chunk \in ConcFragments :
              /\ Len(chunk) <= ConcMaxTextLen - TotalLen(received["sync"])
              /\ ChunkAgrees("sync", chunk)
              /\ ForChunk("sync", chunk)
    \/ EndAgrees("sync") /\ ForEnd("sync")

\* the source answers the request of the asynchronous run
ModesAsyncFetch ==
    \/ /\ pc["async"] = "async_for"
       /\ running = "async"
       /\ Len(received["async"]) < ConcMaxFrags
       /\ \E chunk \in ConcFragments :
              /\ Len(chunk) <= ConcMaxTextLen - TotalLen(received["async"])
              /\ ChunkAgrees("async", chunk)
              /\ AForChunk("async", chunk)
    \/ EndAgrees("async") /\ AForEnd("async")

\* The runs are fully consumed: the consumer always asks for the next item.
\* The input is finite and its source does not fail: every request for a
\* fragment is answered, by a fragment or by the end of the input.  The
\* steps of the asynchronous run need its task to be running, which the
\* event loop may take away and give back any number of times, hence the
\* strong fairness on them and the weak fairness on the dispatch.
SyncStep ==
    \/ Start("sync")
    \/ ModesSyncFetch
    \/ WhileComma("sync")
    \/ WhileExit("sync")
    \/ Resume("sync")
    \/ Finish("sync")

AsyncStep ==
    \/ AStart("async")
    \/ ModesAsyncFetch
    \/ AWhileComma("async")
    \/ AWhileExit("async")
    \/ AResume("async")
    \/ AFinish("async")

FairModes ==
    /\ WF_vars(SyncStep)
    /\ WF_vars(Dispatch("async"))
    /\ SF_vars(AsyncStep)

SpecModesLive == InitModes /\ [][NextModes]_vars /\ FairModes

\* C12: termination: on a finite input whose source does not fail, a fully
\* consumed run, synchronous or asynchronous, eventually makes its final
\* yield and finishes, and stays finished; the draining loop ends because
\* the step between two emissions for the same fragment makes the buffer
\* strictly shorter (it removes at least the comma).
C12_Termination ==
    /\ <>(\A r \in Runs : pc[r] = "returned")
    /\ [][\A r \in Runs :
             (pc[r] = "yield" /\ pc'[r] # "yield") =>
                 /\ pc'[r] = "while"
                 /\ Len(buffer'[r]) < Len(buffer[r])]_vars
    /\ [][\A r \in Runs :
             pc[r] = "returned" =>
                 (pc'[r] = "returned" /\ emitted'[r] = emitted[r])]_vars

C12_Witness ==
    /\ pc["sync"] = "returned"
    /\ pc["async"] = "returned"
    /\ received["async"] = << <<"a">>, <<Comma, Comma>> >>
    /\ Len(emitted["sync"]) = 3
    /\ Len(emitted["async"]) = 3

\* ------------------------------------------------------------------------
\* parse_or_fix: parse, and ask the fixing chain on failure
\* ------------------------------------------------------------------------
\* for _ in range(3)
MaxAttempts == 3

\* texts the caller or the fixing chain can hand over: two spellings of the
\* empty object, a one-element array, and two texts that are not JSON
ValidJson == {"{}", " {}", "[1]"}
InvalidJson == {"{foo: bar}", "{"}
Texts == ValidJson \cup InvalidJson

\* json.loads(text) on a text that parses: the value, not its spelling
Loads(t) ==
    IF t \in {"{}", " {}"} THEN [type |-> "dict", repr |-> "{}"]
    ELSE [type |-> "list", repr |-> "[1]"]

\* the str returned after the loop
FailedToParse == [type |-> "str", repr |-> "Failed to parse"]

\* what fixing_chain.invoke leaves behind when it raises
FixRaised == "<exception>"
Propagated == [type |-> "exception", repr |-> "fixing_chain"]

\* after the loop the last text is parsed once more
PForEnd_ParseLast ==
    /\ ppc = "for"
    /\ attempt = MaxAttempts
    /\ parsed' = Append(parsed, text)
    /\ result' = IF text \in ValidJson THEN Loads(text) ELSE FailedToParse
    /\ ppc' = "returned"
    /\ UNCHANGED <<text, attempt, fixes>>
    /\ UNCHANGED gvars

\* for _ in range(3): the range hands over its next value
PForNext ==
    /\ ppc = "for"
    /\ attempt < MaxAttempts
    /\ attempt' = attempt + 1
    /\ ppc' = "try"
    /\ UNCHANGED <<text, result, parsed, fixes>>
    /\ UNCHANGED gvars

\* the range is exhausted: return "Failed to parse"
PForEnd ==
    /\ ppc = "for"
    /\ attempt = MaxAttempts
    /\ result' = FailedToParse
    /\ ppc' = "returned"
    /\ UNCHANGED <<text, attempt, parsed, fixes>>
    /\ UNCHANGED gvars

\* return json.loads(text), the text parses
PLoadsOk ==
    /\ ppc = "try"
    /\ text \in ValidJson
    /\ parsed' = Append(parsed, text)
    /\ result' = Loads(text)
    /\ ppc' = "returned"
    /\ UNCHANGED <<text, attempt, fixes>>
    /\ UNCHANGED gvars

\* json.loads(text) raises: control goes to the except clause
PLoadsFail ==
    /\ ppc = "try"
    /\ text \notin ValidJson
    /\ parsed' = Append(parsed, text)
    /\ ppc' = "except"
    /\ UNCHANGED <<text, attempt, result, fixes>>
    /\ UNCHANGED gvars

\* text = fixing_chain.invoke(...): the chain answers t
PFix(t) ==
    /\ ppc = "except"
    /\ fixes' = Append(fixes, t)
    /\ text' = t
    /\ ppc' = "for"
    /\ UNCHANGED <<attempt, result, parsed>>
    /\ UNCHANGED gvars

\* fixing_chain.invoke(...) raises inside the except clause: the exception
\* leaves parse_or_fix
PFixRaise ==
    /\ ppc = "except"
    /\ fixes' = Append(fixes, FixRaised)
    /\ result' = Propagated
    /\ ppc' = "raised"
    /\ UNCHANGED <<text, attempt, parsed>>
    /\ UNCHANGED gvars

\* parse_or_fix(text, config) is called with any of the texts
InitParse ==
    /\ InitRuns({})
    /\ running = "loop"
    /\ ppc = "for"
    /\ text \in Texts
    /\ attempt = 0
    /\ result = NoResult
    /\ parsed = <<>>
    /\ fixes = <<>>

NextParse ==
    \/ PForNext
    \/ PForEnd
    \/ PLoadsOk
    \/ PLoadsFail
    \/ \E t \in Texts : PFix(t)
    \/ PFixRaise

SpecParse == InitParse /\ [][NextParse]_vars

\* C13: parse_or_fix calls json.loads at most three times and the fixing
\* chain at most three times.  The i-th call of the fixing chain follows the
\* i-th parse attempt, which failed, and the attempt after it parses what
\* that call returned.  An attempt that succeeds ends the call at once with
\* the parsed value, and it is the first one that succeeds.  When the call
\* returns with all attempts failed, there were exactly three attempts and
\* three fixing calls, the value is the string "Failed to parse", and the
\* text of the third fixing call was never given to json.loads.
C13_ParseOrFix ==
    /\ Len(parsed) <= 3
    /\ Len(fixes) <= 3
    /\ Len(fixes) <= Len(parsed)
    /\ \A i \in 1..Len(fixes) : parsed[i] \in InvalidJson
    /\ \A i \in 2..Len(parsed) : parsed[i] = fixes[i - 1]
    /\ \A i \in 1..Len(parsed) :
           parsed[i] \in ValidJson =>
               /\ i = Len(parsed)
               /\ ppc = "returned"
               /\ result = Loads(parsed[i])
    /\ (ppc = "returned" /\ \A i \in 1..Len(parsed) : parsed[i] \in InvalidJson)
           => /\ Len(parsed) = 3
              /\ Len(fixes) = 3
              /\ result = FailedToParse
    /\ ppc \in {"for", "try", "except"} => result = NoResult

\* three failed attempts, and a third fix that would have parsed
C13_Witness ==
    /\ ppc = "returned"
    /\ result = FailedToParse
    /\ Len(parsed) = 3
    /\ Len(fixes) = 3
    /\ fixes[3] \in ValidJson

====
